---- MODULE Spec2Model ----
(***************************************************************************)
(* The UDP packet logger of src/src/main.rs: one process binds a UDP       *)
(* socket, creates (truncates) udp_packets.log and then loops forever:     *)
(* recv_from, decode, println!, format, write_all, flush.                  *)
(*                                                                         *)
(* The program is started up to twice (Runs) against the same address and  *)
(* the same log path.  The environment is the kernel receive queue of the  *)
(* bound socket, the peers that send datagrams, the page cache and the     *)
(* stable storage behind the log file, the console streams, and the        *)
(* external termination of a run.                                          *)
(***************************************************************************)
EXTENDS Integers, Sequences, FiniteSets, TLC

(* Size of the receive buffer, `[0; 1500]` in the source, scaled down. *)
BufSize == 2
(* Number of datagrams the peers send in a behaviour. *)
MaxDatagrams == 2
(* Datagrams the kernel queues for the socket before it drops new ones. *)
SockBuf == 1

Runs == {1, 2}

(* Byte values: LF (10), 'a' (97), the lead byte 0xC3 (195) and the         *)
(* continuation byte 0xA9 (169).                                           *)
Bytes == {10, 97, 195, 169}

NoAddr == [ip |-> "", port |-> 0]

Srcs == {[ip |-> "127.0.0.1", port |-> 54321], [ip |-> "127.0.0.1", port |-> 54322]}

Fill(len, b) == [i \in 1..len |-> b]

(* Payloads the peers send: everything up to one byte, a valid two-byte    *)
(* character, text with an embedded newline, a payload that fills the      *)
(* buffer exactly, and two payloads one byte longer than the buffer (the   *)
(* second one has a two-byte character across the buffer's end).           *)
Payloads ==
    {<<>>} \cup {<<b>> : b \in Bytes}
           \cup {<<195, 169>>, <<97, 10>>}
           \cup {Fill(BufSize, 97), Fill(BufSize + 1, 97),
                 Fill(BufSize - 1, 97) \o <<195, 169>>}

Datagrams == [src : Srcs, payload : Payloads]

(* The program is started once and receives any of the datagrams, or it is *)
(* started twice and the peers send one of two datagrams.                  *)
Scenarios == {"single", "restart"}
Startable(sc) == IF sc = "single" THEN {1} ELSE Runs
Traffic(sc) ==
    IF sc = "single" THEN Datagrams
    ELSE {[src |-> [ip |-> "127.0.0.1", port |-> 54321], payload |-> <<97>>],
          [src |-> [ip |-> "127.0.0.1", port |-> 54322], payload |-> <<195, 10>>]}

VARIABLES
    scenario,   \* how often the program is started and what the peers send
    pc,         \* pc[r]: the statement run r is at
    err,        \* err[r]: the error of run r's last fallible call, "none" if it succeeded
    buf,        \* buf[r]: the receive buffer
    number_of_bytes, \* number_of_bytes[r]: length returned by the last recv_from
    src_addr,   \* src_addr[r]: source returned by the last recv_from
    data_str,   \* data_str[r]: lossy text of the received data
    received,   \* received[r]: the datagrams recv_from returned to run r, in order
    entries,    \* entries[r]: what each write_all of run r put into the file
    flushes,    \* flushes[r]: number of completed flush calls of run r
    sockq,      \* kernel receive queue of the bound socket
    nsent,      \* datagrams sent to the bound address so far
    nfit,       \* those of them whose payload fits the buffer
    file,       \* content of udp_packets.log as readers see it (page cache)
    disk,       \* content of udp_packets.log on stable storage
    clock       \* reading of the local clock

vars == <<scenario, pc, err, buf, number_of_bytes, src_addr, data_str, received, entries,
          flushes, sockq, nsent, nfit, file, disk, clock>>

-----------------------------------------------------------------------------
(* Pure functions of the loop body. *)

Min(a, b) == IF a < b THEN a ELSE b

(* A recv_from that reports the datagram's full length. *)
RecvLenUntruncated(p) == Len(p)

(* recv_from(&mut buf): the length it returns; the excess of a datagram    *)
(* longer than the buffer is discarded.                                    *)
RecvLen(p) == Min(Len(p), BufSize)

(* recv_from(&mut buf): the buffer after payload p was copied into it;     *)
(* bytes beyond the received length keep their old value.                  *)
RecvInto(b, p) == [i \in 1..BufSize |-> IF i <= Len(p) THEN p[i] ELSE b[i]]

(* The whole buffer instead of the received part. *)
WholeBuffer(b, k) == b

(* &buf[..number_of_bytes] *)
received_data(b, k) == SubSeq(b, 1, k)

REPLACEMENT == "U+FFFD"

AsciiChar(b) == CASE b = 0 -> "NUL" [] b = 10 -> "\n" [] b = 97 -> "a" [] OTHER -> "?"

IsContinuation(b) == b \in 128..191

(* String::from_utf8_lossy: valid sequences are kept, every invalid byte   *)
(* becomes U+FFFD.                                                         *)
RECURSIVE from_utf8_lossy(_)
from_utf8_lossy(bs) ==
    IF bs = <<>> THEN <<>>
    ELSE IF Head(bs) < 128
         THEN <<AsciiChar(Head(bs))>> \o from_utf8_lossy(Tail(bs))
    ELSE IF Head(bs) = 195 /\ Len(bs) >= 2 /\ IsContinuation(bs[2])
         THEN <<"e'">> \o from_utf8_lossy(Tail(Tail(bs)))
    ELSE <<REPLACEMENT>> \o from_utf8_lossy(Tail(bs))

(* Display of a SocketAddr. *)
AddrText(a) == a.ip \o ":" \o ToString(a.port)

(* chrono::Local::now().format(...) *)
Timestamp(t) == "T" \o ToString(t)

(* format!("[{}] Received from {}: {}\n", timestamp, src_addr, data_str) *)
log_entry(t, a, text) ==
    <<"[" \o Timestamp(t) \o "] Received from " \o AddrText(a) \o ": ">> \o text \o <<"\n">>

(* An error that is ignored instead of unwrapped. *)
ExpectIgnored(ok, next) == next

(* .expect(msg): the value on Ok, a panic on Err. *)
Expect(ok, next) == IF ok THEN next ELSE "dead"

(* println!/eprintln!: panics when the write to the stream fails. *)
PrintPanics(ok, next) == IF ok THEN next ELSE "dead"

Holding == {"banner", "create", "recv", "print", "write", "flush", "eprint"}
InLoop == {"recv", "print", "write", "flush", "eprint"}
Holder == {r \in Runs : pc[r] \in Holding}

-----------------------------------------------------------------------------
InitCommon ==
    /\ pc = [r \in Runs |-> "idle"]
    /\ err = [r \in Runs |-> "none"]
    /\ buf = [r \in Runs |-> Fill(BufSize, 0)]
    /\ number_of_bytes = [r \in Runs |-> 0]
    /\ src_addr = [r \in Runs |-> NoAddr]
    /\ data_str = [r \in Runs |-> <<>>]
    /\ received = [r \in Runs |-> <<>>]
    /\ entries = [r \in Runs |-> <<>>]
    /\ flushes = [r \in Runs |-> 0]
    /\ sockq = <<>>
    /\ nsent = 0
    /\ nfit = 0
    /\ file = <<>>
    /\ disk = <<>>
    /\ clock = 0

Init == scenario = "single" /\ InitCommon

InitRestart == scenario = "restart" /\ InitCommon

Env == <<scenario, sockq, nsent, nfit, file, disk, clock>>

(* Run r moves to newpc with e as the outcome of its call; b, k, a and d   *)
(* are its locals afterwards.  The memory of a run that ended is gone.     *)
Goes(r, newpc, e, b, k, a, d) ==
    /\ pc' = [pc EXCEPT ![r] = newpc]
    /\ err' = [err EXCEPT ![r] = e]
    /\ buf' = [buf EXCEPT ![r] = IF newpc = "dead" THEN Fill(BufSize, 0) ELSE b]
    /\ number_of_bytes' = [number_of_bytes EXCEPT ![r] = IF newpc = "dead" THEN 0 ELSE k]
    /\ src_addr' = [src_addr EXCEPT ![r] = IF newpc = "dead" THEN NoAddr ELSE a]
    /\ data_str' = [data_str EXCEPT ![r] = IF newpc = "dead" THEN <<>> ELSE d]

Moves(r, newpc, e) ==
    Goes(r, newpc, e, buf[r], number_of_bytes[r], src_addr[r], data_str[r])

(* The socket of a run that ended is closed and its queue is discarded. *)
QueueAfter(r, newpc) == IF newpc = "dead" /\ r \in Holder THEN <<>> ELSE sockq

(* The program is started; the runs start in order. *)
Launch(r) ==
    /\ r \in Startable(scenario)
    /\ pc[r] = "idle"
    /\ \A q \in Runs : q < r => pc[q] # "idle"
    /\ Moves(r, "bind", "none")
    /\ UNCHANGED <<received, entries, flushes, Env>>

(* UdpSocket::bind(bind_address).expect(..): fails while another run holds *)
(* the address, or when the address is unbindable for another reason.      *)
Bind(r) ==
    /\ pc[r] = "bind"
    /\ \E free \in BOOLEAN :
        LET ok == Holder = {} /\ free IN
        Moves(r, Expect(ok, "banner"), IF ok THEN "none" ELSE "bind")
    /\ UNCHANGED <<received, entries, flushes, Env>>

(* The two println! of the startup banner. *)
Banner(r) ==
    /\ pc[r] = "banner"
    /\ \E ok \in BOOLEAN :
        LET newpc == PrintPanics(ok, "create") IN
        /\ Moves(r, newpc, IF ok THEN "none" ELSE "stdout")
        /\ sockq' = QueueAfter(r, newpc)
    /\ UNCHANGED <<scenario, received, entries, flushes, nsent, nfit, file, disk, clock>>

(* A log file opened without truncation. *)
NotTruncated(f) == f

(* File::create("udp_packets.log"): the file after a successful create. *)
Truncated(f) == <<>>

(* File::create("udp_packets.log").expect(..), then `let mut buf`. *)
Create(r) ==
    /\ pc[r] = "create"
    /\ \E ok \in BOOLEAN :
        LET newpc == Expect(ok, "recv") IN
        /\ Moves(r, newpc, IF ok THEN "none" ELSE "create")
        /\ file' = IF ok THEN Truncated(file) ELSE file
        /\ sockq' = QueueAfter(r, newpc)
    /\ UNCHANGED <<scenario, received, entries, flushes, nsent, nfit, disk, clock>>

(* socket.recv_from(&mut buf) returns Ok: the head of the queue is copied  *)
(* into the buffer; then lines 53 and 62, the slice (which panics when the *)
(* length is beyond the buffer) and the lossy decoding.                    *)
RecvOk(r) ==
    /\ pc[r] = "recv"
    /\ sockq # <<>>
    /\ LET d == Head(sockq)
           b == RecvInto(buf[r], d.payload)
           k == RecvLen(d.payload)
           newpc == IF k > BufSize THEN "dead" ELSE "print"
       IN
        /\ Goes(r, newpc, IF k > BufSize THEN "slice" ELSE "none", b, k, d.src,
                from_utf8_lossy(received_data(b, Min(k, BufSize))))
        /\ received' = [received EXCEPT ![r] = Append(@, d)]
        /\ sockq' = IF newpc = "dead" THEN <<>> ELSE Tail(sockq)
    /\ UNCHANGED <<scenario, entries, flushes, nsent, nfit, file, disk, clock>>

(* socket.recv_from(&mut buf) returns Err. *)
RecvErr(r) ==
    /\ pc[r] = "recv"
    /\ Moves(r, "eprint", "recv")
    /\ UNCHANGED <<received, entries, flushes, Env>>

(* eprintln!("Error receiving packet: {}", e) *)
Eprintln(r) ==
    /\ pc[r] = "eprint"
    /\ \E ok \in BOOLEAN :
        LET newpc == PrintPanics(ok, "recv") IN
        /\ Moves(r, newpc, IF ok THEN "none" ELSE "stderr")
        /\ sockq' = QueueAfter(r, newpc)
    /\ UNCHANGED <<scenario, received, entries, flushes, nsent, nfit, file, disk, clock>>

(* println!("Received {} bytes from {}: {}", ..) *)
Println(r) ==
    /\ pc[r] = "print"
    /\ \E ok \in BOOLEAN :
        LET newpc == PrintPanics(ok, "write") IN
        /\ Moves(r, newpc, IF ok THEN "none" ELSE "stdout")
        /\ sockq' = QueueAfter(r, newpc)
    /\ UNCHANGED <<scenario, received, entries, flushes, nsent, nfit, file, disk, clock>>

(* An entry that is written twice. *)
WrittenTwice(f, e) == f \o e \o e

(* write_all on success: the whole entry is appended. *)
Written(f, e) == f \o e

(* format!(..) and file.write_all(log_entry.as_bytes()).expect(..): on     *)
(* failure any part of the entry short of all of it may have been written. *)
Write(r) ==
    /\ pc[r] = "write"
    /\ LET e == log_entry(clock, src_addr[r], data_str[r]) IN
        \/ /\ Moves(r, Expect(TRUE, "flush"), "none")
           /\ file' = Written(file, e)
           /\ entries' = [entries EXCEPT ![r] = Append(@, e)]
           /\ sockq' = sockq
        \/ /\ Moves(r, Expect(FALSE, "flush"), "write")
           /\ \E k \in 0..(Len(e) - 1) :
                /\ file' = file \o SubSeq(e, 1, k)
                /\ entries' = [entries EXCEPT ![r] = Append(@, SubSeq(e, 1, k))]
           /\ sockq' = QueueAfter(r, Expect(FALSE, "flush"))
    /\ clock' = clock + 1
    /\ UNCHANGED <<scenario, received, flushes, nsent, nfit, disk>>

(* A loop that goes back to recv_from without flushing. *)
FlushSkipped(r) ==
    /\ pc[r] = "flush"
    /\ Moves(r, "recv", "none")
    /\ UNCHANGED <<scenario, received, entries, flushes, sockq, nsent, nfit, file, disk, clock>>

(* file.flush().expect(..): flush of a std::fs::File hands nothing to the  *)
(* storage device; the file has no buffer of its own.                      *)
Flush(r) ==
    /\ pc[r] = "flush"
    /\ \E ok \in BOOLEAN :
        LET newpc == Expect(ok, "recv") IN
        /\ Moves(r, newpc, IF ok THEN "none" ELSE "flush")
        /\ flushes' = [flushes EXCEPT ![r] = IF ok THEN @ + 1 ELSE @]
        /\ sockq' = QueueAfter(r, newpc)
    /\ UNCHANGED <<scenario, received, entries, nsent, nfit, file, disk, clock>>

(* External termination of a run, the only way the loop ends. *)
Kill(r) ==
    /\ pc[r] \in Holding \cup {"bind"}
    /\ Moves(r, "dead", "killed")
    /\ sockq' = QueueAfter(r, "dead")
    /\ UNCHANGED <<scenario, received, entries, flushes, nsent, nfit, file, disk, clock>>

(* A peer sends a datagram to the bound address: the kernel queues it for  *)
(* the socket, or drops it when the queue is full.                         *)
Send(d) ==
    /\ d \in Traffic(scenario)
    /\ Holder # {}
    /\ nsent < MaxDatagrams
    /\ nsent' = nsent + 1
    /\ nfit' = IF Len(d.payload) <= BufSize THEN nfit + 1 ELSE nfit
    /\ sockq' = IF Len(sockq) < SockBuf THEN Append(sockq, d) ELSE sockq
    /\ UNCHANGED <<scenario, pc, err, buf, number_of_bytes, src_addr, data_str,
                   received, entries, flushes, file, disk, clock>>

(* The kernel writes the dirty pages of the log file back to the device. *)
Writeback ==
    /\ disk # file
    /\ disk' = file
    /\ UNCHANGED <<scenario, pc, err, buf, number_of_bytes, src_addr, data_str,
                   received, entries, flushes, sockq, nsent, nfit, file, clock>>

Next ==
    \/ \E r \in Runs : Launch(r)
    \/ \E r \in Runs : Bind(r)
    \/ \E r \in Runs : Banner(r)
    \/ \E r \in Runs : Create(r)
    \/ \E r \in Runs : RecvOk(r)
    \/ \E r \in Runs : RecvErr(r)
    \/ \E r \in Runs : Eprintln(r)
    \/ \E r \in Runs : Println(r)
    \/ \E r \in Runs : Write(r)
    \/ \E r \in Runs : Flush(r)
    \/ \E r \in Runs : Kill(r)
    \/ \E d \in Datagrams : Send(d)
    \/ Writeback

Spec == Init /\ [][Next]_vars

SpecRestart == InitRestart /\ [][Next]_vars

-----------------------------------------------------------------------------
(* Vocabulary of the properties. *)

Last(q) == q[Len(q)]

Range(q) == {q[i] : i \in 1..Len(q)}

(* The bytes a sequence of writes leaves in a file that was empty. *)
RECURSIVE Flatten(_)
Flatten(es) == IF es = <<>> THEN <<>> ELSE Head(es) \o Flatten(Tail(es))

RECURSIVE NewlineCount(_)
NewlineCount(f) ==
    IF f = <<>> THEN 0
    ELSE (IF Head(f) = "\n" THEN 1 ELSE 0) + NewlineCount(Tail(f))

Handling == {"print", "write", "flush"}

-----------------------------------------------------------------------------
(* C1: between two receives there is exactly one write_all of one entry    *)
(* and then one flush: while a run waits in recv_from (or reports a        *)
(* receive error) the entries written and the flushes completed both equal *)
(* the successful receives and the file holds exactly those entries; while *)
(* it handles a datagram, the write and the flush of that datagram, in     *)
(* this order, are the only ones outstanding.                              *)
C1_WriteAndFlushBeforeNextRecv ==
    \A r \in Runs :
        /\ pc[r] \in {"recv", "eprint"} =>
              /\ Len(entries[r]) = Len(received[r])
              /\ flushes[r] = Len(received[r])
              /\ file = Flatten(entries[r])
        /\ pc[r] \in {"print", "write"} =>
              /\ Len(entries[r]) = Len(received[r]) - 1
              /\ flushes[r] = Len(received[r]) - 1
        /\ pc[r] = "flush" =>
              /\ Len(entries[r]) = Len(received[r])
              /\ flushes[r] = Len(received[r]) - 1

C1_Witness ==
    /\ pc[1] = "recv"
    /\ Len(received[1]) = 2
    /\ Len(entries[1]) = 2
    /\ flushes[1] = 2

(* C2: a receive error never terminates the process: no run ends in the    *)
(* arm that handles Err of recv_from.                                      *)
C2_RecvErrorNeverFatal ==
    \A r \in Runs : ~(pc[r] = "dead" /\ err[r] = "stderr")

(* C3: a failed write_all or flush is fatal: the run that saw it is dead,  *)
(* and a dead run never receives, writes or flushes again.                 *)
C3_WriteFlushFailureFatal ==
    /\ [](\A r \in Runs : err[r] \in {"write", "flush"} => pc[r] = "dead")
    /\ [][\A r \in Runs : pc[r] = "dead" =>
              /\ pc'[r] = "dead"
              /\ received'[r] = received[r]
              /\ entries'[r] = entries[r]
              /\ flushes'[r] = flushes[r]]_vars

C3_Witness ==
    /\ pc[1] = "dead"
    /\ err[1] = "flush"
    /\ Len(received[1]) = 1
    /\ sockq = <<>>
    /\ nsent = 2

(* C4: whenever a run is back in recv_from after logging a datagram, the   *)
(* log on stable storage holds that datagram's entry.                      *)
C4_DurableBeforeNextRecv ==
    \A r \in Runs : (pc[r] = "recv" /\ entries[r] # <<>>) => disk = file

(* C5, as stated: whenever a run waits in recv_from and nothing is queued, *)
(* every datagram sent to the bound address that fits the buffer has       *)
(* exactly one entry in the log.                                           *)
C5_EverySentDatagramLogged ==
    \A r \in Runs :
        (pc[r] = "recv" /\ sockq = <<>>) =>
            Cardinality({i \in 1..Len(entries[r]) :
                            Len(received[r][i].payload) <= BufSize}) = nfit

(* C5, amended: whenever a run waits in recv_from, the file consists of    *)
(* exactly one entry for each datagram recv_from has returned to it, in    *)
(* the order received, and the entry of a datagram that fits the buffer    *)
(* carries its source address and the lossy text of its payload.           *)
C5_EveryReceivedDatagramLoggedOnce ==
    \A r \in Runs :
        pc[r] \in {"recv", "eprint"} =>
            /\ Len(entries[r]) = Len(received[r])
            /\ file = Flatten(entries[r])
            /\ \A i \in 1..Len(received[r]) :
                  Len(received[r][i].payload) <= BufSize =>
                      \E t \in 0..clock :
                          entries[r][i] =
                              <<"[" \o Timestamp(t) \o "] Received from "
                                    \o AddrText(received[r][i].src) \o ": ">>
                              \o from_utf8_lossy(received[r][i].payload) \o <<"\n">>

C5_Witness ==
    /\ pc[1] = "recv"
    /\ Len(entries[1]) = 2
    /\ received[1][1].src # received[1][2].src
    /\ Len(received[1][1].payload) = BufSize
    /\ received[1][2].payload = <<195, 169>>

C7_OnlySecondRunsEntries ==
    pc[2] \notin {"idle", "bind", "banner", "create"} =>
        \A i \in 1..Len(entries[1]) :
            entries[1][i] # <<>> => entries[1][i][1] \notin Range(file)

(* C7, amended: while a run whose bind and File::create both succeeded is  *)
(* in its loop, the file holds that run's entries and nothing else.        *)
C7_OnlyEntriesOfTheRunInTheLoop ==
    \A r \in Runs : pc[r] \in InLoop => file = Flatten(entries[r])

C7_Witness ==
    /\ pc[2] = "recv"
    /\ entries[1] # <<>>
    /\ entries[2] # <<>>
    /\ file = Flatten(entries[2])

(* C8: whenever a run waits in recv_from, the file has as many newline     *)
(* characters as datagrams were received.                                  *)
C8_OneLinePerDatagram ==
    \A r \in Runs : pc[r] = "recv" => NewlineCount(file) = Len(received[r])

(* C9: a failure of the per-packet status line does not end the run.       *)
C9_StatusLineFailureNotFatal ==
    \A r \in Runs : ~(pc[r] = "dead" /\ err[r] = "stdout" /\ received[r] # <<>>)

(* C10: the text of a log entry is the text of the first number_of_bytes   *)
(* bytes of the datagram received in this iteration, whatever earlier      *)
(* datagrams left in the buffer.                                           *)
C10_NoStaleBytes ==
    \A r \in Runs :
        pc[r] \in Handling =>
            LET p == Last(received[r]).payload IN
            /\ number_of_bytes[r] <= Len(p)
            /\ data_str[r] = from_utf8_lossy(SubSeq(p, 1, number_of_bytes[r]))
            /\ pc[r] = "flush" =>
                  \E t \in 0..clock :
                      Last(entries[r]) = log_entry(t, Last(received[r]).src,
                                                   from_utf8_lossy(SubSeq(p, 1, number_of_bytes[r])))

C10_Witness ==
    /\ pc[1] = "flush"
    /\ Len(received[1]) = 2
    /\ number_of_bytes[1] < BufSize
    /\ buf[1][BufSize] # 0
    /\ Len(received[1][1].payload) >= BufSize

====
